---------------------------- MODULE Spec2Model ----------------------------
(***************************************************************************)
(* A model of flasharch (main.go and its variant without signature check). *)
(*                                                                         *)
(*   reduce, progress.Write, downloadFile, parseBody, getFilename, main    *)
(*   are modelled from main.go; getURL from the variant.                   *)
(*                                                                         *)
(* Go's int is 64 bits wide, which is more than TLC's integers hold, so a  *)
(* Go int is kept as a sign and a magnitude of base-1024 limbs (least      *)
(* significant first).  Strings are sequences of one-character strings.    *)
(***************************************************************************)
EXTENDS Integers, Sequences, FiniteSets, TLC

VARIABLES
    rn,       \* reduce: the argument n of the call under study
    rres,     \* reduce: its outcome, or NoResult before the call
    pc,       \* the statement the program is at
    stdout,   \* what the program has printed: one entry per print call
    files,    \* the file system: path -> the file's bytes
    netLens,  \* the body lengths the server may answer with
    dlUrl,    \* downloadFile: its argument url
    dlName,   \* downloadFile: its argument filename
    handles,  \* downloadFile: the handles that are open ("file", "body")
    defers,   \* downloadFile: its stack of deferred calls
    resp,     \* downloadFile: the response of http.Get
    off,      \* downloadFile: the bytes of resp.Body read so far
    pr,       \* downloadFile: the progress struct p
    err,      \* downloadFile: the error it returned
    doc,      \* the parsed HTML tree: its nodes below the root, in document order
    found,    \* parseBody: what it returned, or NotCalled
    usb,      \* main: the path of the USB drive
    url,      \* main: the URL it downloads from
    filename, \* main: the name of the file it downloads
    isoFile,  \* main: where it saves the ISO
    sigFile,  \* main: where it saves the signature
    stage,    \* main: which download is under way ("iso", "sig"), "" outside main
    steps,    \* history: the steps main has started and how each ended
    cfgMirror,\* getURL: the mirror the variant is configured with
    gotURL    \* getURL: what it returned, or NotCalled

reduceVars == <<rn, rres>>
dlVars == <<dlUrl, dlName, handles, defers, resp, off, pr, err>>
locVars == <<doc, found>>
mainVars == <<usb, url, filename, isoFile, sigFile, stage, steps>>
urlVars == <<cfgMirror, gotURL>>
vars == <<rn, rres, pc, stdout, files, netLens, dlUrl, dlName, handles, defers, resp, off, pr, err,
          doc, found, usb, url, filename, isoFile, sigFile, stage, steps, cfgMirror, gotURL>>

-----------------------------------------------------------------------------
(* Go int arithmetic                                                       *)

WordBits == 64

\* reduce moves from one unit to the next every 10 bits; a limb holds as many.
UnitBits == 10
LimbBits == UnitBits
Base == 2 ^ LimbBits
NumLimbs == (WordBits + LimbBits - 1) \div LimbBits

ZeroMag == [i \in 1..NumLimbs |-> 0]

\* The magnitude of a natural number that TLC can hold (k < 2^31).
MagOfNat(k) ==
    [i \in 1..NumLimbs |-> IF i <= 4 THEN (k \div (Base ^ (i - 1))) % Base ELSE 0]

GoInt(k) == [neg |-> k < 0, mag |-> MagOfNat(IF k < 0 THEN 0 - k ELSE k)]

IsZeroMag(m) == \A i \in 1..NumLimbs : m[i] = 0

TopLimb(m) == CHOOSE i \in 1..NumLimbs : m[i] > 0 /\ \A j \in (i + 1)..NumLimbs : m[j] = 0

Limb(m, j) == IF j \in 1..NumLimbs THEN m[j] ELSE 0

\* m < 2^bits, for a magnitude m.
MagBelowPow2(m, bits) ==
    \A i \in 1..NumLimbs :
        /\ (i - 1) * LimbBits >= bits => m[i] = 0
        /\ ((i - 1) * LimbBits < bits /\ bits < i * LimbBits)
               => m[i] < 2 ^ (bits - (i - 1) * LimbBits)

\* The value of a magnitude below Base^2, as a number.
SmallOfMag(m) == m[1] + Base * m[2]

\* m < k, for a magnitude m and a number k <= Base^2.
MagBelowNat(m, k) == (\A i \in 3..NumLimbs : m[i] = 0) /\ SmallOfMag(m) < k

\* Long division of a magnitude by a small divisor, most significant limb first.
RECURSIVE DivStep(_, _, _, _)
DivStep(m, d, i, rem) ==
    IF i = 0
    THEN [q |-> <<>>, r |-> rem]
    ELSE LET cur  == rem * Base + m[i]
             rest == DivStep(m, d, i - 1, cur % d)
         IN  [q |-> Append(rest.q, cur \div d), r |-> rest.r]

DivMag(m, d) == DivStep(m, d, NumLimbs, 0).q
ModMag(m, d) == DivStep(m, d, NumLimbs, 0).r

RECURSIVE MulStep(_, _, _, _)
MulStep(m, k, i, carry) ==
    IF i > NumLimbs
    THEN <<>>
    ELSE LET cur == m[i] * k + carry
         IN  <<cur % Base>> \o MulStep(m, k, i + 1, cur \div Base)

MulMag(m, k) == MulStep(m, k, 1, 0)

RECURSIVE IncStep(_, _, _)
IncStep(m, i, carry) ==
    IF i > NumLimbs
    THEN <<>>
    ELSE LET cur == m[i] + carry
         IN  <<cur % Base>> \o IncStep(m, i + 1, cur \div Base)

IncMag(m) == IncStep(m, 1, 1)

\* Logical right shift of a magnitude by s bits, 0 <= s < WordBits.
ShrMag(m, s) ==
    LET q == s \div LimbBits
        r == s % LimbBits
    IN  [i \in 1..NumLimbs |->
            (Limb(m, i + q) \div (2 ^ r))
              + (Limb(m, i + q + 1) % (2 ^ r)) * (2 ^ (LimbBits - r))]

\* The bits a right shift by s drops are all zero.
LowBitsZero(m, s) ==
    LET q == s \div LimbBits
        r == s % LimbBits
    IN  /\ \A i \in 1..q : Limb(m, i) = 0
        /\ Limb(m, q + 1) % (2 ^ r) = 0

\* Go's x / d for a small positive d: the quotient truncated toward zero.
GoDiv(x, d) ==
    LET q == DivMag(x.mag, d)
    IN  [neg |-> x.neg /\ ~IsZeroMag(q), mag |-> q]

\* Go's k * x for a small positive k.
GoMul(k, x) == [neg |-> x.neg, mag |-> MulMag(x.mag, k)]

\* Go's x >> s for a count 0 <= s: an arithmetic shift, which rounds toward
\* minus infinity; a count of WordBits or more leaves 0 or -1.
GoShr(x, s) ==
    IF ~MagBelowNat(s.mag, WordBits)
    THEN [neg |-> x.neg, mag |-> IF x.neg THEN MagOfNat(1) ELSE ZeroMag]
    ELSE LET c == SmallOfMag(s.mag)
             t == ShrMag(x.mag, c)
         IN  IF x.neg /\ ~LowBitsZero(x.mag, c)
             THEN [neg |-> TRUE, mag |-> IncMag(t)]
             ELSE [neg |-> x.neg /\ ~IsZeroMag(t), mag |-> t]

MinInt64 == [neg |-> TRUE,  mag |-> [i \in 1..NumLimbs |-> IF i = NumLimbs THEN 8 ELSE 0]]
MaxInt64 == [neg |-> FALSE, mag |-> [i \in 1..NumLimbs |-> IF i = NumLimbs THEN 7 ELSE Base - 1]]


-----------------------------------------------------------------------------
(* reduce                                                                  *)

units == <<"B", "K", "M", "G">>

DigitChars == <<"0", "1", "2", "3", "4", "5", "6", "7", "8", "9">>

RECURSIVE Digits(_)
Digits(m) ==
    IF IsZeroMag(m)
    THEN <<>>
    ELSE Append(Digits(DivMag(m, Len(DigitChars))), DigitChars[ModMag(m, Len(DigitChars)) + 1])

\* strconv.Itoa
Itoa(x) ==
    IF IsZeroMag(x.mag)
    THEN <<"0">>
    ELSE (IF x.neg THEN <<"-">> ELSE <<>>) \o Digits(x.mag)

\* The largest k with 2^k <= v, for 1 <= v < Base.
Log2Limb(v) == CHOOSE k \in 0..(LimbBits - 1) : 2 ^ k <= v /\ v < 2 ^ (k + 1)

\* What converting a float that no int can represent (NaN, an infinity) to int
\* may leave: Go calls the value implementation-dependent.  64-bit builds leave
\* the smallest int, the largest int or, for NaN only, zero.
InvalidConv == [min |-> MinInt64, zero |-> GoInt(0), max |-> MaxInt64]

ConvOutcomes(n) ==
    IF n.neg THEN {"min", "zero", "max"}
    ELSE IF IsZeroMag(n.mag) THEN {"min", "max"}
    ELSE {"exact"}

Log2IntBitLength(n, conv) ==
    IF n.neg \/ IsZeroMag(n.mag)
    THEN InvalidConv[conv]
    ELSE LET t == TopLimb(n.mag)
         IN  GoInt((t - 1) * LimbBits + Log2Limb(n.mag[t]) + 1)

\* int(math.Log2(float64(n))): for 0 < n < 2^48 the float is exact and its
\* logarithm lies far enough below the next integer to truncate to
\* floor(log2 n); log2 of 0 is -Inf and of a negative number NaN.
Log2Int(n, conv) ==
    IF n.neg \/ IsZeroMag(n.mag)
    THEN InvalidConv[conv]
    ELSE LET t == TopLimb(n.mag)
         IN  GoInt((t - 1) * LimbBits + Log2Limb(n.mag[t]))

NoPanic == "none"

\* units[index] is in range.
IndexInRange(index) == ~index.neg /\ MagBelowNat(index.mag, Len(units))

reduce(n, conv) ==
    LET index == GoDiv(Log2Int(n, conv), UnitBits)
        count == GoMul(UnitBits, index)
    IN  IF count.neg
        THEN [panic |-> "negative shift amount", text |-> <<>>]
        ELSE IF ~IndexInRange(index)
        THEN [panic |-> "index out of range", text |-> <<>>]
        ELSE [panic |-> NoPanic,
              text  |-> Append(Itoa(GoShr(n, count)), units[SmallOfMag(index.mag) + 1])]

NoResult == [panic |-> "not called", text |-> <<>>]

LimbSamples == {0, 1, 2, Base \div 2 - 1, Base \div 2, Base - 1}

\* Byte counts from 0 to past 1024^4, and the -1 of an unknown length.
ReduceInputs ==
    {[neg |-> FALSE,
      mag |-> [i \in 1..NumLimbs |-> IF i = 1 THEN a ELSE IF i = 2 THEN b
                                      ELSE IF i = 3 THEN c ELSE IF i = 4 THEN d
                                      ELSE IF i = 5 THEN e ELSE 0]] :
        a \in LimbSamples, b \in LimbSamples, c \in LimbSamples,
        d \in LimbSamples, e \in {0, 1}}
    \cup {GoInt(0 - 1)}

ReduceIdle == rn = GoInt(1) /\ rres = NoResult

CallReduce ==
    /\ rres = NoResult
    /\ \E conv \in ConvOutcomes(rn) : rres' = reduce(rn, conv)
    /\ UNCHANGED <<rn, pc, stdout, files, netLens, dlVars, locVars, mainVars, urlVars>>

-----------------------------------------------------------------------------
(* progress                                                                *)

Nil == "nil"

Repeat(c, k) == [i \in 1..k |-> c]

PrintEvery == 50
ClearWidth == 50

\* The progress struct as downloadFile builds it: have and count are zero.
NewProgress(total) == [total |-> total, have |-> 0, count |-> 0]

WriteEveryFiftyBytes(p, n) ==
    LET have  == p.have + n
        count == p.count + 1
        q     == [p EXCEPT !.have = have, !.count = count]
    IN  IF have % PrintEvery > 0
        THEN [p |-> q, out |-> <<>>, panic |-> NoPanic, n |-> n]
        ELSE [p |-> q,
              out |-> << <<"\r">> \o Repeat(" ", ClearWidth),
                         <<"\r", "Received ">> \o reduce(GoInt(have), "exact").text \o <<" of ">>
                             \o p.total \o <<" total">> >>,
              panic |-> NoPanic, n |-> n]

\* progress.Write(p) for a chunk of n bytes: the struct afterwards, what is
\* printed, and the panic of reduce if it raises one.
Write(p, n) ==
    LET have  == p.have + n
        count == p.count + 1
        q     == [p EXCEPT !.have = have, !.count = count]
    IN  IF count % PrintEvery > 0
        THEN [p |-> q, out |-> <<>>, panic |-> NoPanic, n |-> n]
        ELSE LET r == reduce(GoInt(have), "exact")
             IN  IF r.panic # NoPanic
                 THEN [p |-> q, out |-> << <<"\r">> \o Repeat(" ", ClearWidth) >>,
                       panic |-> r.panic, n |-> 0]
                 ELSE [p |-> q,
                       out |-> << <<"\r">> \o Repeat(" ", ClearWidth),
                                  <<"\r", "Received ">> \o r.text \o <<" of ">>
                                      \o p.total \o <<" total">> >>,
                       panic |-> NoPanic, n |-> n]

-----------------------------------------------------------------------------
(* downloadFile                                                            *)

StatusText == [c \in {200, 404, 503} |->
                 IF c = 200 THEN "200 OK"
                 ELSE IF c = 404 THEN "404 Not Found" ELSE "503 Service Unavailable"]

StatusCodes == DOMAIN StatusText

\* The bytes of a body of k bytes.
Body(k) == [i \in 1..k |-> (i * 7) % 256]

\* What http.Get may answer: a status, a body, and a Content-Length that is
\* the body's length or -1 when the server does not state one.
Responses ==
    UNION {{[StatusCode |-> c, Status |-> StatusText[c], ContentLength |-> cl, Body |-> Body(k)] :
               c \in StatusCodes, cl \in {k, 0 - 1}} : k \in netLens}

NoResp == [StatusCode |-> 0, Status |-> "", ContentLength |-> 0, Body |-> <<>>]

MaxChunk == 2

RunDefersLastOnly(ds, hs) == IF ds = <<>> THEN hs ELSE hs \ {ds[Len(ds)]}

\* Running the deferred calls of a returning (or panicking) downloadFile,
\* last one first: each closes its handle.
RECURSIVE RunDefers(_, _)
RunDefers(ds, hs) ==
    IF ds = <<>> THEN hs
    ELSE RunDefers(SubSeq(ds, 1, Len(ds) - 1), hs \ {ds[Len(ds)]})

\* return e, after the deferred calls.
Return(e) ==
    /\ err' = e
    /\ handles' = RunDefers(defers, handles)
    /\ defers' = <<>>
    /\ pc' = "Returned"

\* A panic inside downloadFile: the deferred calls run, and the program dies.
Panic(what) ==
    /\ err' = what
    /\ handles' = RunDefers(defers, handles)
    /\ defers' = <<>>
    /\ pc' = "Panicked"

\* file, err := os.Create(filename); if err != nil { return err }; defer file.Close()
Create ==
    /\ pc = "Create"
    /\ \/ /\ Return("create failed")
          /\ UNCHANGED files
       \/ /\ files' = [f \in DOMAIN files \cup {dlName} |-> IF f = dlName THEN <<>> ELSE files[f]]
          /\ handles' = handles \cup {"file"}
          /\ defers' = Append(defers, "file")
          /\ pc' = "Get"
          /\ UNCHANGED err
    /\ UNCHANGED <<reduceVars, locVars, urlVars, mainVars, stdout, netLens, dlUrl, dlName, resp, off, pr>>

\* resp, err := http.Get(url); if err != nil { return err }; defer resp.Body.Close()
Get ==
    /\ pc = "Get"
    /\ \/ /\ Return("get failed")
          /\ UNCHANGED resp
       \/ /\ \E r \in Responses : resp' = r
          /\ handles' = handles \cup {"body"}
          /\ defers' = Append(defers, "body")
          /\ pc' = "Status"
          /\ UNCHANGED err
    /\ UNCHANGED <<reduceVars, locVars, urlVars, mainVars, stdout, files, netLens, dlUrl, dlName, off, pr>>

StatusOKBelow500(r) == r.StatusCode < 500

\* resp.StatusCode != 200, negated
StatusOK(r) == r.StatusCode = 200

\* if resp.StatusCode != 200 { return fmt.Errorf("%v", resp.Status) }
CheckStatus ==
    /\ pc = "Status"
    /\ \/ /\ ~StatusOK(resp)
          /\ Return(resp.Status)
       \/ /\ StatusOK(resp)
          /\ pc' = "Progress"
          /\ UNCHANGED <<handles, defers, err>>
    /\ UNCHANGED <<reduceVars, locVars, urlVars, mainVars, stdout, files, netLens, dlUrl, dlName, resp, off, pr>>

\* p := progress{total: reduce(int(resp.ContentLength))}; t := io.TeeReader(resp.Body, &p)
SetUpProgress ==
    /\ pc = "Progress"
    /\ \E conv \in ConvOutcomes(GoInt(resp.ContentLength)) :
          LET r == reduce(GoInt(resp.ContentLength), conv)
          IN  \/ /\ r.panic # NoPanic
                 /\ Panic(r.panic)
                 /\ UNCHANGED pr
              \/ /\ r.panic = NoPanic
                 /\ pr' = NewProgress(r.text)
                 /\ pc' = "Copy"
                 /\ UNCHANGED <<handles, defers, err>>
    /\ UNCHANGED <<reduceVars, locVars, urlVars, mainVars, stdout, files, netLens, dlUrl, dlName, resp, off>>

FileWriteInFront(data, chunk, nw) == SubSeq(chunk, 1, nw) \o data

\* file.Write(chunk), of which nw bytes reach the file: they follow what it holds.
FileWrite(data, chunk, nw) == data \o SubSeq(chunk, 1, nw)

\* One round of io.Copy(file, t): t reads up to a buffer of the body (the
\* TeeReader hands what it read to p.Write when it read anything), and what
\* was read is written to the file.  The read ends with no error, with EOF at
\* the body's end, or with a failure; the write may fail part way.
CopyChunk ==
    /\ pc = "Copy"
    /\ LET left == Len(resp.Body) - off
       IN  \E n \in 0..(IF left < MaxChunk THEN left ELSE MaxChunk),
              er \in {Nil, "EOF", "read failed"},
              nw \in 0..MaxChunk :
              /\ er = "EOF" => n = left
              /\ nw <= n
              /\ nw < n => er = Nil
              /\ LET w     == IF n > 0 THEN Write(pr, n)
                              ELSE [p |-> pr, out |-> <<>>, panic |-> NoPanic, n |-> 0]
                     chunk == SubSeq(resp.Body, off + 1, off + n)
                 IN  /\ off' = off + n
                     /\ pr' = w.p
                     /\ stdout' = stdout \o w.out
                     /\ IF w.panic # NoPanic
                        THEN Panic(w.panic) /\ UNCHANGED files
                        ELSE /\ files' = [files EXCEPT ![dlName] = FileWrite(@, chunk, nw)]
                             /\ IF nw < n THEN Return("write failed")
                                ELSE IF er = "EOF" THEN Return(Nil)
                                ELSE IF er # Nil THEN Return(er)
                                ELSE UNCHANGED <<pc, handles, defers, err>>
    /\ UNCHANGED <<reduceVars, locVars, urlVars, mainVars, netLens, dlUrl, dlName, resp>>

-----------------------------------------------------------------------------
(* parseBody                                                               *)

\* A tree is the sequence of its nodes below the document root in document
\* order (a node before its children, children left to right), each with its
\* depth below the root: a node's parent is the nearest node before it that is
\* one level up, and the root (node 0) if there is none.
ElementNode == "element"
TextNode == "text"

Node(depth, type, data, attr) == [depth |-> depth, Type |-> type, Data |-> data, Attr |-> attr]

Parent(d, j) ==
    LET ups == {i \in 1..(j - 1) : d[i].depth = d[j].depth - 1}
    IN  IF ups = {} THEN 0 ELSE CHOOSE i \in ups : \A k \in ups : k <= i

\* The children of node p, left to right.
RECURSIVE ChildrenFrom(_, _, _)
ChildrenFrom(d, p, j) ==
    IF j > Len(d) THEN <<>>
    ELSE (IF Parent(d, j) = p THEN <<j>> ELSE <<>>) \o ChildrenFrom(d, p, j + 1)

Children(d, p) == ChildrenFrom(d, p, p + 1)

\* strings.HasSuffix, on strings kept as sequences of pieces.
HasSuffix(s, suffix) ==
    /\ Len(suffix) <= Len(s)
    /\ SubSeq(s, Len(s) - Len(suffix) + 1, Len(s)) = suffix

IsoSuffix == <<".iso">>

\* for _, a := range parent.Attr { if a.Key == "href" && HasSuffix(a.Val, ".iso") { return a.Val } }
RECURSIVE ScanAttr(_)
ScanAttr(attr) ==
    IF attr = <<>> THEN <<>>
    ELSE IF Head(attr).Key = "href" /\ HasSuffix(Head(attr).Val, IsoSuffix)
    THEN Head(attr).Val
    ELSE ScanAttr(Tail(attr))

AttrOf(d, p) == IF p = 0 THEN <<>> ELSE d[p].Attr

RECURSIVE parseBody(_, _, _)
RECURSIVE ScanChildren(_, _, _)

ScanChildrenFirstMatchOnly(d, kids, tags) ==
    IF kids = <<>> THEN <<>>
    ELSE LET child == d[Head(kids)]
         IN  IF child.Type = ElementNode /\ child.Data = Head(tags)
             THEN parseBody(d, Head(kids), Tail(tags))
             ELSE ScanChildren(d, Tail(kids), tags)

\* for child := parent.FirstChild; child != nil; child = child.NextSibling { ... }
ScanChildren(d, kids, tags) ==
    IF kids = <<>> THEN <<>>
    ELSE LET child == d[Head(kids)]
         IN  IF child.Type = ElementNode /\ child.Data = Head(tags)
             THEN LET iso == parseBody(d, Head(kids), Tail(tags))
                  IN  IF iso # <<>> THEN iso ELSE ScanChildren(d, Tail(kids), tags)
             ELSE ScanChildren(d, Tail(kids), tags)

parseBody(d, parent, tags) ==
    IF Len(tags) = 0
    THEN ScanAttr(AttrOf(d, parent))
    ELSE ScanChildren(d, Children(d, parent), tags)

\* The path getFilename searches along.
tags == <<"html", "body", "table", "tbody", "tr", "td", "a">>

NotCalled == <<"not called">>

Href(v) == <<[Key |-> "href", Val |-> v]>>

\* The attribute lists the trees carry on their anchors at the path's depth.
AnchorAttrs ==
    { Href(<<"arch-1", ".iso">>),
      Href(<<"arch-2", ".iso">>),
      Href(<<"arch-1", ".iso", ".sig">>),
      <<[Key |-> "title", Val |-> <<"arch-3", ".iso">>]>> \o Href(<<"arch-4", ".iso">>) }

\* The nodes a tree may carry at a depth: the element the path names there or
\* another element; near the path's end also anchors, one level above the
\* path's anchors, among them (with text beside them) and one level below.
NodesAt(depth) ==
    IF depth < Len(tags) - 1
    THEN {Node(depth, ElementNode, tags[depth], <<>>), Node(depth, ElementNode, "div", <<>>)}
    ELSE IF depth = Len(tags) - 1
    THEN {Node(depth, ElementNode, tags[depth], <<>>),
          Node(depth, ElementNode, "a", Href(<<"arch-0", ".iso">>))}
    ELSE IF depth = Len(tags)
    THEN {Node(depth, ElementNode, "a", at) : at \in AnchorAttrs}
         \cup {Node(depth, ElementNode, "div", <<>>), Node(depth, TextNode, "a", <<>>)}
    ELSE {Node(depth, ElementNode, "a", Href(<<"arch-5", ".iso">>))}

\* What html.Parse always builds: html, with head and body below it.
Skeleton ==
    << Node(1, ElementNode, "html", <<>>),
       Node(2, ElementNode, "head", <<>>),
       Node(2, ElementNode, "body", <<>>) >>

MaxNodes == 6

LocatorIdle == doc = <<>> /\ found = NotCalled

\* The parser adds the next node in document order: a child of the last node
\* (unless that is text) or of one of its ancestors.
AddNode ==
    /\ found = NotCalled
    /\ Len(doc) < Len(Skeleton) + MaxNodes
    /\ LET last == doc[Len(doc)]
           deepest == IF last.Type = ElementNode THEN last.depth + 1 ELSE last.depth
       IN  \E depth \in 2..(IF deepest > Len(tags) + 1 THEN Len(tags) + 1 ELSE deepest) : \E nd \in NodesAt(depth) : doc' = Append(doc, nd)
    /\ UNCHANGED <<found, reduceVars, urlVars, pc, stdout, files, netLens, dlVars, mainVars>>

\* filename := parseBody(doc, tags)
Locate ==
    /\ found = NotCalled
    /\ found' = parseBody(doc, 0, tags)
    /\ UNCHANGED <<doc, reduceVars, urlVars, pc, stdout, files, netLens, dlVars, mainVars>>


-----------------------------------------------------------------------------
(* main                                                                    *)

mirror == <<"https://mirrors.ocf.berkeley.edu", "/", "archlinux", "/", "iso", "/", "latest", "/">>

TempDir == <<"/tmp">>

\* path.IsAbs
IsAbs(p) == Len(p) > 0 /\ p[1] = "/"

\* perms & (1 << bit) > 0
BitSet(perms, bit) == (perms \div (2 ^ bit)) % 2 = 1

\* getUSB: the path it returns ("" when it refuses) for the arguments of the
\* process and what the system says of the path.
getUSB(args, sys) ==
    IF Len(args) # 2 THEN <<>>
    ELSE LET path   == args[2]
             uWrite == BitSet(sys.perms, 7)
             gWrite == BitSet(sys.perms, 4)
             oWrite == BitSet(sys.perms, 1)
         IN  IF ~IsAbs(path) THEN <<>>
             ELSE IF sys.statErr THEN <<>>
             ELSE IF /\ sys.isStatT
                     /\ ~(sys.isUser /\ uWrite) /\ ~(sys.isGroup /\ gWrite) /\ ~oWrite
             THEN <<>>
             ELSE path

ArgLists ==
    { <<"flasharch">>,
      <<"flasharch", <<"/", "dev", "/", "sdb">> >>,
      <<"flasharch", <<"sdb">> >>,
      <<"flasharch", <<"/", "dev", "/", "sdb">>, <<"/", "dev", "/", "sdc">> >> }

SysAnswers ==
    [statErr : BOOLEAN, isStatT : BOOLEAN, isUser : BOOLEAN, isGroup : BOOLEAN,
     perms : {0, 2, 16, 128, 292, 432}]

Started(step) == [step |-> step, what |-> "started"]
Ended(step, ok) == [step |-> step, what |-> IF ok THEN "ok" ELSE "failed"]

Exit(code) == pc' = IF code = 0 THEN "Exit0" ELSE "Exit1"

\* if runtime.GOOS != "linux" { ...; os.Exit(1) }
CheckOS ==
    /\ pc = "main"
    /\ \E goos \in {"linux", "darwin"} :
          IF goos # "linux"
          THEN /\ stdout' = Append(stdout, <<"flasharch", "has only been tested on Linux">>)
               /\ Exit(1)
          ELSE /\ pc' = "getUSB"
               /\ UNCHANGED stdout
    /\ UNCHANGED <<reduceVars, locVars, urlVars, dlVars, mainVars, files, netLens>>

\* usb := getUSB(); if usb == "" { os.Exit(1) }
ValidateDestination ==
    /\ pc = "getUSB"
    /\ \E args \in ArgLists, sys \in SysAnswers :
          LET path == getUSB(args, sys)
          IN  /\ usb' = path
              /\ IF path = <<>>
                 THEN /\ Exit(1)
                      /\ steps' = steps \o <<Started("validate destination"),
                                             Ended("validate destination", FALSE)>>
                 ELSE /\ pc' = "getFilename"
                      /\ steps' = steps \o <<Started("validate destination"),
                                             Ended("validate destination", TRUE)>>
    /\ UNCHANGED <<reduceVars, locVars, urlVars, dlVars, url, filename, isoFile, sigFile, stage, stdout, files, netLens>>

\* A listing with one ISO, and a page without one.
Listing ==
    Skeleton \o << Node(3, ElementNode, "table", <<>>), Node(4, ElementNode, "tbody", <<>>),
                   Node(5, ElementNode, "tr", <<>>), Node(6, ElementNode, "td", <<>>),
                   Node(7, ElementNode, "a", Href(<<"arch-1", ".iso">>)) >>

MainDocs == {Listing, Skeleton}

\* u, err := url.Parse(mirror) (the mirror compiled in parses); url := u.String();
\* filename := getFilename(url); if filename == "" { os.Exit(1) }
LocateFilename ==
    /\ pc = "getFilename"
    /\ url' = mirror
    /\ \E got \in {"get failed", "parse failed", "parsed"} :
          \E d \in MainDocs :
             LET name == IF got = "parsed" THEN parseBody(d, 0, tags) ELSE <<>>
             IN  /\ filename' = name
                 /\ IF name = <<>>
                    THEN /\ Exit(1)
                         /\ steps' = steps \o <<Started("locate filename"),
                                                Ended("locate filename", FALSE)>>
                    ELSE /\ pc' = "downloadISO"
                         /\ steps' = steps \o <<Started("locate filename"),
                                                Ended("locate filename", TRUE)>>
    /\ stdout' = Append(stdout, <<"Looking for ISO in">> \o mirror)
    /\ UNCHANGED <<reduceVars, locVars, urlVars, dlVars, usb, isoFile, sigFile, stage, files, netLens>>

\* Entering downloadFile(u, name).
Call(u, name) ==
    /\ dlUrl' = u /\ dlName' = name
    /\ handles' = {} /\ defers' = <<>>
    /\ resp' = NoResp /\ off' = 0 /\ pr' = NewProgress(<<>>) /\ err' = Nil
    /\ pc' = "Create"

\* url += "/" + filename; isoFile := os.TempDir() + "/" + filename;
\* downloadFile(url, isoFile)
DownloadISO ==
    /\ pc = "downloadISO"
    /\ url' = url \o <<"/">> \o filename
    /\ isoFile' = TempDir \o <<"/">> \o filename
    /\ Call(url', isoFile')
    /\ stage' = "iso"
    /\ steps' = Append(steps, Started("download image"))
    /\ stdout' = Append(stdout, <<"Downloading">> \o filename \o <<"...">>)
    /\ UNCHANGED <<reduceVars, locVars, urlVars, usb, filename, sigFile, files, netLens>>

\* if err := downloadFile(url, isoFile); err != nil { ...; os.Exit(1) }; filename += ".sig";
\* url += ".sig"; sigFile := isoFile + ".sig"; downloadFile(url, sigFile)
DownloadSig ==
    /\ pc = "Returned" /\ stage = "iso"
    /\ IF err # Nil
       THEN /\ Exit(1)
            /\ stdout' = Append(stdout, <<"Error downloading ISO:", err>>)
            /\ steps' = Append(steps, Ended("download image", err = Nil))
            /\ UNCHANGED <<dlVars, url, filename, sigFile, stage>>
       ELSE /\ filename' = filename \o <<".sig">>
            /\ url' = url \o <<".sig">>
            /\ sigFile' = isoFile \o <<".sig">>
            /\ Call(url', sigFile')
            /\ stage' = "sig"
            /\ steps' = steps \o <<Ended("download image", err = Nil), Started("download signature")>>
            /\ stdout' = stdout \o << <<"\n">>, <<"Download complete">>,
                                      <<"Downloading">> \o filename' \o <<"...">> >>
    /\ UNCHANGED <<reduceVars, locVars, urlVars, usb, isoFile, files, netLens>>

\* if err := downloadFile(url, sigFile); err != nil { ...; os.Exit(1) }
SigDownloaded ==
    /\ pc = "Returned" /\ stage = "sig"
    /\ IF err # Nil
       THEN /\ Exit(1)
            /\ stdout' = Append(stdout, <<"Error downloading signature:", err>>)
       ELSE /\ pc' = "gpg"
            /\ stdout' = stdout \o << <<"\n">>, <<"Download complete">> >>
    /\ steps' = Append(steps, Ended("download signature", err = Nil))
    /\ stage' = ""
    /\ UNCHANGED <<reduceVars, locVars, urlVars, dlVars, usb, url, filename, isoFile, sigFile, files, netLens>>

CmdErrors == {Nil, "exit status 1", "exit status 2", "executable file not found"}

VerifyUnchecked ==
    /\ pc = "gpg"
    /\ \E e \in CmdErrors :
          /\ pc' = "dd"
          /\ stdout' = stdout \o << <<"Verifying ISO">>, <<"\t", "gpg output">> >>
          /\ steps' = steps \o <<Started("verify signature"), Ended("verify signature", e = Nil)>>
    /\ UNCHANGED <<reduceVars, locVars, urlVars, dlVars, usb, url, filename, isoFile, sigFile, stage, files, netLens>>

\* cmd := exec.Command("gpg", ..., "--verify", sigFile, isoFile);
\* if output, err := cmd.CombinedOutput(); err != nil { ...; os.Exit(1) }
Verify ==
    /\ pc = "gpg"
    /\ \E e \in CmdErrors :
          /\ IF e # Nil
             THEN /\ Exit(1)
                  /\ stdout' = stdout \o << <<"Verifying ISO">>, <<"Error verifying ISO:", e>> >>
             ELSE /\ pc' = "dd"
                  /\ stdout' = stdout \o << <<"Verifying ISO">>, <<"\t", "gpg output">> >>
          /\ steps' = steps \o <<Started("verify signature"), Ended("verify signature", e = Nil)>>
    /\ UNCHANGED <<reduceVars, locVars, urlVars, dlVars, usb, url, filename, isoFile, sigFile, stage, files, netLens>>

\* cmd = exec.Command("dd", "if="+isoFile, "of="+usb, ...);
\* if output, err := cmd.CombinedOutput(); err != nil { ...; os.Exit(1) }
Flash ==
    /\ pc = "dd"
    /\ \E e \in CmdErrors :
          IF e # Nil
          THEN /\ Exit(1)
               /\ stdout' = stdout \o << <<"Flashing ISO to">> \o usb, <<"Error flashing ISO:", e>> >>
               /\ steps' = steps \o <<Started("flash"), Ended("flash", FALSE)>>
               /\ UNCHANGED files
          ELSE /\ pc' = "removeISO"
               /\ stdout' = stdout \o << <<"Flashing ISO to">> \o usb, <<"\t", "dd output">>,
                                         <<"Flash complete">> >>
               /\ steps' = steps \o <<Started("flash"), Ended("flash", TRUE)>>
               /\ files' = [f \in DOMAIN files \cup {usb} |-> IF f = usb THEN files[isoFile] ELSE files[f]]
    /\ UNCHANGED <<reduceVars, locVars, urlVars, dlVars, usb, url, filename, isoFile, sigFile, stage, netLens>>

Without(fs, f) == [g \in DOMAIN fs \ {f} |-> fs[g]]

\* if err := os.Remove(isoFile); err != nil { ...; os.Exit(1) }
RemoveISO ==
    /\ pc = "removeISO"
    /\ \/ /\ Exit(1)
          /\ stdout' = Append(stdout, <<"Error removing ISO file:", "remove failed">>)
          /\ steps' = steps \o <<Started("remove temporary files"),
                                 Ended("remove temporary files", FALSE)>>
          /\ UNCHANGED files
       \/ /\ pc' = "removeSig"
          /\ files' = Without(files, isoFile)
          /\ steps' = Append(steps, Started("remove temporary files"))
          /\ UNCHANGED stdout
    /\ UNCHANGED <<reduceVars, locVars, urlVars, dlVars, usb, url, filename, isoFile, sigFile, stage, netLens>>

\* if err := os.Remove(sigFile); err != nil { ...; os.Exit(1) }
RemoveSig ==
    /\ pc = "removeSig"
    /\ \/ /\ Exit(1)
          /\ stdout' = Append(stdout, <<"Error removing signature file:", "remove failed">>)
          /\ steps' = Append(steps, Ended("remove temporary files", FALSE))
          /\ UNCHANGED files
       \/ /\ Exit(0)
          /\ files' = Without(files, sigFile)
          /\ steps' = Append(steps, Ended("remove temporary files", TRUE))
          /\ UNCHANGED stdout
    /\ UNCHANGED <<reduceVars, locVars, urlVars, dlVars, usb, url, filename, isoFile, sigFile, stage, netLens>>

MainIdle ==
    /\ usb = <<>> /\ url = <<>> /\ filename = <<>> /\ isoFile = <<>> /\ sigFile = <<>>
    /\ stage = "" /\ steps = <<>>

MaxSmallBody == 2

-----------------------------------------------------------------------------
(* getURL (the variant without signature check)                            *)

\* A URL string is kept as its pieces: the scheme and host first, then the
\* path's slashes and the runs of characters between them.
InvalidEscape == "%zz"

\* url.Parse: it fails on an invalid escape.
urlParses(m) == \A i \in 1..Len(m) : m[i] # InvalidEscape

urlParse(m) == [Host |-> Head(m), Path |-> Tail(m)]

\* u.String()
urlString(u) == <<u.Host>> \o u.Path

LastSlash(path) ==
    LET at == {i \in 1..Len(path) : path[i] = "/"}
    IN  IF at = {} THEN 0 ELSE CHOOSE i \in at : \A k \in at : k <= i

\* u.Parse(ref), which resolves the reference ref against u (RFC 3986): a
\* reference that starts with a slash replaces the path, another one
\* replaces what follows the path's last slash.  (No path here has dot
\* segments to remove.)
urlResolve(u, ref) ==
    LET full == IF ref[1] = "/" THEN ref ELSE SubSeq(u.Path, 1, LastSlash(u.Path)) \o ref
    IN  [u EXCEPT !.Path = IF full[1] = "/" THEN full ELSE <<"/">> \o full]

\* if !strings.HasSuffix(u.Path, "/") { u, err = u.Parse("/") }
EnsureSlash(u) == IF ~HasSuffix(u.Path, <<"/">>) THEN urlResolve(u, <<"/">>) ELSE u

\* if !HasSuffix(u.Path, "latest/") { if !HasSuffix(u.Path, "iso/") { u.Parse("iso/") }; u.Parse("latest/") }
EnsureLatest(u) ==
    IF ~HasSuffix(u.Path, <<"latest", "/">>)
    THEN LET v == IF ~HasSuffix(u.Path, <<"iso", "/">>) THEN urlResolve(u, <<"iso", "/">>) ELSE u
         IN  urlResolve(v, <<"latest", "/">>)
    ELSE u

getURL(m) ==
    IF m = <<>> THEN <<>>
    ELSE IF ~urlParses(m) THEN <<>>
    ELSE urlString(EnsureLatest(EnsureSlash(urlParse(m))))

MaxPathLen == 6

PathPieces == {"/", "archlinux", "iso", "latest", "x", InvalidEscape}

MirrorHost == "https://mirrors.ocf.berkeley.edu"

URLIdle == cfgMirror = <<>> /\ gotURL = NotCalled

\* Whoever configures the variant writes the mirror: a host, then a path that
\* starts with a slash.
WriteMirror ==
    /\ gotURL = NotCalled
    /\ cfgMirror # <<>>
    /\ Len(cfgMirror) < 1 + MaxPathLen
    /\ \E c \in PathPieces :
          /\ Len(cfgMirror) = 1 => c = "/"
          /\ cfgMirror' = Append(cfgMirror, c)
    /\ UNCHANGED <<gotURL, reduceVars, locVars, dlVars, mainVars, pc, stdout, files, netLens>>

\* url := getURL()
CallGetURL ==
    /\ gotURL = NotCalled
    /\ gotURL' = getURL(cfgMirror)
    /\ UNCHANGED <<cfgMirror, reduceVars, locVars, dlVars, mainVars, pc, stdout, files, netLens>>

NextDownload == Create \/ Get \/ CheckStatus \/ SetUpProgress \/ CopyChunk

MaxBody == 101

DownloadIdle ==
    /\ dlUrl = <<>> /\ dlName = <<>> /\ handles = {} /\ defers = <<>>
    /\ resp = NoResp /\ off = 0 /\ pr = NewProgress(<<>>) /\ err = Nil

\* A call downloadFile(url, filename) on its own, with the destination absent
\* or holding older bytes.
InitDownload ==
    /\ ReduceIdle
    /\ pc = "Create"
    /\ stdout = <<>>
    /\ netLens = {0, 1, MaxBody}
    /\ dlUrl = <<"mirror", "/", "arch.iso">>
    /\ dlName = <<"/tmp", "/", "arch.iso">>
    /\ files \in {<<>>, [f \in {dlName} |-> <<1, 2, 3>>]}
    /\ handles = {} /\ defers = <<>>
    /\ resp = NoResp /\ off = 0 /\ pr = NewProgress(<<>>) /\ err = Nil
    /\ LocatorIdle /\ MainIdle /\ URLIdle

SpecDownload == InitDownload /\ [][NextDownload]_vars

\* The program from its start, the temporary directory empty or holding the
\* files of an earlier run.
Init ==
    /\ pc = "main"
    /\ stdout = <<>>
    /\ netLens = {0, MaxSmallBody}
    /\ files \in {<<>>,
                  [f \in {TempDir \o <<"/", "arch-1", ".iso">>,
                          TempDir \o <<"/", "arch-1", ".iso", ".sig">>} |-> <<1, 2, 3>>]}
    /\ ReduceIdle /\ DownloadIdle /\ LocatorIdle /\ MainIdle /\ URLIdle

Next ==
    \/ CheckOS \/ ValidateDestination \/ LocateFilename \/ DownloadISO \/ DownloadSig
    \/ SigDownloaded \/ Verify \/ Flash \/ RemoveISO \/ RemoveSig
    \/ NextDownload

Spec == Init /\ [][Next]_vars

InitReduce ==
    /\ rn \in ReduceInputs /\ rres = NoResult
    /\ pc = "reduce" /\ stdout = <<>> /\ files = <<>> /\ netLens = {}
    /\ DownloadIdle /\ LocatorIdle /\ MainIdle /\ URLIdle

NextReduce == CallReduce

SpecReduce == InitReduce /\ [][NextReduce]_vars

InitLocator ==
    /\ doc = Skeleton /\ found = NotCalled
    /\ ReduceIdle /\ DownloadIdle /\ MainIdle /\ URLIdle
    /\ pc = "parseBody" /\ stdout = <<>> /\ files = <<>> /\ netLens = {}

NextLocator == AddNode \/ Locate

SpecLocator == InitLocator /\ [][NextLocator]_vars

InitURL ==
    /\ cfgMirror \in {<<>>, <<MirrorHost>>} /\ gotURL = NotCalled
    /\ pc = "getURL" /\ stdout = <<>> /\ files = <<>> /\ netLens = {}
    /\ ReduceIdle /\ DownloadIdle /\ LocatorIdle /\ MainIdle

NextURL == WriteMirror \/ CallGetURL

SpecURL == InitURL /\ [][NextURL]_vars

-----------------------------------------------------------------------------
(* Properties                                                              *)

\* The number a decimal text stands for.
DigitValue(c) == CHOOSE v \in 0..9 : DigitChars[v + 1] = c

RECURSIVE ParseDecimal(_)
ParseDecimal(text) ==
    IF text = <<>> THEN 0
    ELSE 10 * ParseDecimal(SubSeq(text, 1, Len(text) - 1)) + DigitValue(text[Len(text)])

IsDecimal(text) ==
    /\ Len(text) > 0
    /\ \A i \in 1..Len(text) : \E v \in 0..9 : DigitChars[v + 1] = text[i]
    /\ Len(text) > 1 => text[1] # "0"

UnitIndex(u) == (CHOOSE i \in 1..Len(units) : units[i] = u) - 1

\* The tags from the root down to node j.
RECURSIVE TagPath(_, _)
TagPath(d, j) == IF j = 0 THEN <<>> ELSE Append(TagPath(d, Parent(d, j)), d[j].Data)

RECURSIVE ElementsOnly(_, _)
ElementsOnly(d, j) == j = 0 \/ (d[j].Type = ElementNode /\ ElementsOnly(d, Parent(d, j)))

IsoHrefs(nd) ==
    {k \in 1..Len(nd.Attr) :
        /\ nd.Attr[k].Key = "href"
        /\ Len(nd.Attr[k].Val) > 0
        /\ nd.Attr[k].Val[Len(nd.Attr[k].Val)] = ".iso"}

\* The anchors with an ISO link that the path html, ..., a leads to.
OnPath(d) == {j \in 1..Len(d) : ElementsOnly(d, j) /\ TagPath(d, j) = tags /\ IsoHrefs(d[j]) # {}}
OffPath(d) == {j \in 1..Len(d) : TagPath(d, j) # tags /\ d[j].Data = "a" /\ IsoHrefs(d[j]) # {}}

FirstOf(S) == CHOOSE j \in S : \A k \in S : j <= k

Expected(d) ==
    IF OnPath(d) = {} THEN <<>>
    ELSE LET nd == d[FirstOf(OnPath(d))] IN nd.Attr[FirstOf(IsoHrefs(nd))].Val

\* C1: parseBody returns the ISO link of the first anchor in document order
\* that the exact path html, body, table, tbody, tr, td, a leads to, and the
\* empty string when there is none; it never returns the link of an anchor
\* that only another path leads to.
C1_FirstIsoOnPath ==
    found # NotCalled =>
        /\ found = Expected(doc)
        /\ found # <<>> => \E j \in OnPath(doc) : \E k \in IsoHrefs(doc[j]) : doc[j].Attr[k].Val = found

C1_Witness ==
    /\ found # NotCalled /\ found # <<>>
    /\ \E j \in OffPath(doc) : j < FirstOf(OnPath(doc))

\* C2: while a status-200 body is copied the destination holds exactly the
\* bytes read so far, in order, whether or not progress lines were printed,
\* and when downloadFile returns nil it holds exactly the body.
C2_ExactCopy ==
    /\ pc = "Copy" => files[dlName] = SubSeq(resp.Body, 1, off)
    /\ (pc = "Returned" /\ err = Nil) =>
           /\ resp.StatusCode = 200
           /\ Len(files[dlName]) = Len(resp.Body)
           /\ \A i \in 1..Len(resp.Body) : files[dlName][i] = resp.Body[i]

C2_Witness ==
    /\ pc = "Returned" /\ err = Nil
    /\ Len(resp.Body) = MaxBody
    /\ Len(stdout) >= 2
    /\ pr.count < Len(resp.Body)

\* C3: for a status other than 200 downloadFile returns the response's status
\* as its error, reads and writes nothing of the body, prints nothing, and
\* leaves the destination existing and empty.
C3_NotOKLeavesEmptyFile ==
    (pc = "Returned" /\ resp # NoResp /\ resp.StatusCode # 200) =>
        /\ err = resp.Status
        /\ off = 0
        /\ stdout = <<>>
        /\ dlName \in DOMAIN files
        /\ files[dlName] = <<>>

C3_Witness ==
    /\ pc = "Returned" /\ resp.StatusCode = 404 /\ Len(resp.Body) > 0
    /\ err = "404 Not Found"

ClearLine == <<"\r">> \o [i \in 1..50 |-> " "]

\* What a progress line shows as received.
Shown(line) ==
    LET k == CHOOSE i \in 1..Len(line) : line[i] = " of "
    IN  [number |-> SubSeq(line, 3, k - 2), unit |-> line[k - 1], rest |-> SubSeq(line, k, Len(line))]

ShowsBytes(line, total, bytes) ==
    LET sh == Shown(line)
    IN  /\ line[1] = "\r" /\ line[2] = "Received "
        /\ sh.rest = <<" of ">> \o total \o <<" total">>
        /\ IsDecimal(sh.number)
        /\ sh.unit \in {units[i] : i \in 1..Len(units)}
        /\ ParseDecimal(sh.number) = bytes \div (1024 ^ UnitIndex(sh.unit))
        /\ ParseDecimal(sh.number) \in 1..1023

\* C4: a call of progress.Write prints exactly when it is the 50th, 100th, ...
\* call on the sink: then it prints a carriage return and 50 spaces, and after
\* them the line that shows the sum of all chunks so far; any other call
\* prints nothing, so nothing is printed during the first 49 calls.
C4_EveryFiftiethCall ==
    /\ [](pc \in {"Copy", "Returned", "Panicked"} => Len(stdout) = 2 * (pr.count \div 50))
    /\ [][pr'.count # pr.count =>
            /\ pr'.count = pr.count + 1
            /\ IF pr'.count % 50 = 0
               THEN /\ Len(stdout') = Len(stdout) + 2
                    /\ SubSeq(stdout', 1, Len(stdout)) = stdout
                    /\ stdout'[Len(stdout) + 1] = ClearLine
                    /\ ShowsBytes(stdout'[Len(stdout) + 2], pr.total, off')
               ELSE stdout' = stdout]_vars

C4_Witness == pr.count = 100 /\ Len(stdout) = 4 /\ off > 100

\* n is in 1 .. 1024^4 - 1.
InUnitRange(n) == ~n.neg /\ ~IsZeroMag(n.mag) /\ MagBelowPow2(n.mag, LimbBits * Len(units))

\* C5: for 1 <= n < 1024^4 reduce returns, without a panic, the decimal text
\* of v followed by the unit of index i, where v = n >> 10*i and 1 <= v < 1024.
C5_ReduceScales ==
    (rres # NoResult /\ InUnitRange(rn)) =>
        /\ rres.panic = NoPanic
        /\ Len(rres.text) >= 2
        /\ LET u      == rres.text[Len(rres.text)]
               number == SubSeq(rres.text, 1, Len(rres.text) - 1)
           IN  /\ u \in {units[i] : i \in 1..Len(units)}
               /\ IsDecimal(number)
               /\ ParseDecimal(number) \in 1..1023
               /\ ParseDecimal(number) = rn.mag[UnitIndex(u) + 1]
               /\ \A j \in (UnitIndex(u) + 2)..NumLimbs : rn.mag[j] = 0

C5_Witness ==
    /\ rn = GoInt(1536) /\ rres.text = <<"1", "K">>

\* C6: reduce(0) raises no panic and returns "0B".
C6_ZeroGivesZeroB ==
    (rres # NoResult /\ rn = GoInt(0)) => (rres.panic = NoPanic /\ rres.text = <<"0", "B">>)

\* C7: for a status-200 response whose content length is unknown (-1) or 0,
\* downloadFile builds the progress sink with the total "0B" and goes on to
\* copy the body, raising no error.
C7_UnknownLengthShowsZeroB ==
    (/\ pc \in {"Copy", "Returned", "Panicked"}
     /\ resp.StatusCode = 200
     /\ resp.ContentLength \in {0 - 1, 0}) =>
        (pc # "Panicked" /\ pr.total = <<"0", "B">>)

StepOrder ==
    <<"validate destination", "locate filename", "download image", "download signature",
      "verify signature", "flash", "remove temporary files">>

StepEnded(step, ok) == \E k \in 1..Len(steps) : steps[k] = Ended(step, ok)
StepStarted(step) == \E k \in 1..Len(steps) : steps[k] = Started(step)

\* C8: main starts its steps in the order validate destination, locate
\* filename, download image, download signature, verify signature, flash,
\* remove temporary files, each only after the one before it has ended well;
\* a step that fails is the last thing the run does, with the program exited
\* (a panic inside a download ends the run in that step);
\* so dd runs only after both downloads returned nil and gpg exited with 0,
\* and the signature's download starts only after the image's has returned.
C8_StepsInOrder ==
    /\ \A k \in 1..Len(steps) :
          LET i == (k + 1) \div 2
          IN  /\ i <= Len(StepOrder)
              /\ steps[k].step = StepOrder[i]
              /\ k % 2 = 1 => steps[k].what = "started"
              /\ k % 2 = 0 => steps[k].what \in {"ok", "failed"}
              /\ steps[k].what = "failed" => (k = Len(steps) /\ pc = "Exit1")
    /\ StepStarted("flash") =>
          /\ StepEnded("download image", TRUE)
          /\ StepEnded("download signature", TRUE)
          /\ StepEnded("verify signature", TRUE)
    /\ stage = "sig" => (StepEnded("download image", TRUE) /\ isoFile \in DOMAIN files)
    /\ pc = "Panicked" =>
          steps[Len(steps)] \in {Started("download image"), Started("download signature")}

C8_Witness ==
    /\ pc = "Exit0"
    /\ StepEnded("flash", TRUE)
    /\ usb \in DOMAIN files /\ Len(files[usb]) = MaxSmallBody

\* C9: when downloadFile has returned (or a panic has left it) no handle that
\* it opened is still open; until then the destination's handle is open from
\* os.Create on and the body from http.Get on.
C9_HandlesReleased ==
    /\ pc \in {"Returned", "Panicked"} => handles = {}
    /\ pc = "Get" => handles = {"file"}
    /\ pc \in {"Status", "Progress", "Copy"} => handles = {"file", "body"}

C9_Witness == pc = "Returned" /\ err = "read failed" /\ off > 0 /\ off < Len(resp.Body)

IsPrefix(q, r) == Len(q) <= Len(r) /\ SubSeq(r, 1, Len(q)) = q

\* C10: for a non-empty mirror that parses, getURL returns a URL inside the
\* mirror (the mirror is its prefix) whose path ends in iso/latest/.
C10_InsideMirror ==
    (gotURL # NotCalled /\ cfgMirror # <<>> /\ urlParses(cfgMirror)) =>
        /\ IsPrefix(cfgMirror, gotURL)
        /\ HasSuffix(gotURL, <<"iso", "/", "latest", "/">>)

=============================================================================
